---- MODULE Spec2Model ----
(***************************************************************************)
(* Model of cfg::config_item (config.h) and of ui::menu_option / ui::menu  *)
(* (menu.h).                                                               *)
(*                                                                         *)
(* A menu is a std::vector of menu options plus an iterator into it.  The  *)
(* vector is modelled with its buffer address (data), its capacity and its *)
(* contents; the iterator is modelled as the raw position it stores        *)
(* (buffer address and offset), because the code never resets it: what it  *)
(* denotes after the vector changed is decided by where the vector's       *)
(* buffer is then.                                                         *)
(*                                                                         *)
(* Text is modelled as a sequence of one-character strings.                *)
(***************************************************************************)
EXTENDS Integers, Sequences, FiniteSets, TLC

\* ------------------------------------------------------------------ bounds
MaxLen == 3       \* most options a menu holds in the model
NumAddr == 3      \* number of distinct buffer addresses the allocator hands out
MaxText == 2      \* longest text generated over Alphabet

Null == 0         \* nullptr: the buffer of a vector that never allocated
Addr == 1..NumAddr
Menus == {1, 2}
Keys == {"w", "h"}            \* keys given to add
SelectKeys == Keys \cup {"q"} \* keys given to select; "q" is never added
Settings == {"width", "height"}

VARIABLES
    options_,    \* menu::options_ : contents of the vector, per menu
    capacity,    \* options_.capacity(), per menu
    data,        \* options_.data(): address of the vector's buffer, per menu
    selection_,  \* menu::selection_ : the stored iterator, per menu
    valid,       \* whether selection_ is a valid, dereferenceable iterator (@pre of remove/selection)
    value_,      \* config_item::value_ of every configuration item
    last         \* the operation executed last, with its result

vars == <<options_, capacity, data, selection_, valid, value_, last>>
menuvars == <<options_, capacity, data, selection_, valid>>

\* ------------------------------------------------------------ config_item
\* std::variant<bool, uint8, int, double>: the active alternative and its value.
\* A double is kept as the decimal it denotes: sign, integer digits without
\* leading zeros, fraction digits without trailing zeros.
Variant(kind, val) == [kind |-> kind, val |-> val]
Kinds == {"bool", "uint8", "int", "double"}
Decimal(neg, int, frac) == [neg |-> neg, int |-> int, frac |-> frac]

UINT8_MAX == 255
INT_MAX == 2147483647
INT_MIN == -INT_MAX - 1

Digits == <<"0", "1", "2", "3", "4", "5", "6", "7", "8", "9">>
IsDigit(c) == \E i \in 1..10 : Digits[i] = c
DigitVal(c) == (CHOOSE i \in 1..10 : Digits[i] = c) - 1

\* number of consecutive digits of text from position i on
RECURSIVE DigitRun(_, _)
DigitRun(text, i) ==
    IF i > Len(text) \/ ~IsDigit(text[i]) THEN 0 ELSE 1 + DigitRun(text, i + 1)

\* decimal digits of n >= 0
RECURSIVE FormatNat(_)
FormatNat(n) ==
    IF n < 10 THEN <<Digits[n + 1]>> ELSE Append(FormatNat(n \div 10), Digits[(n % 10) + 1])

\* FormatInt without the sign
FormatInt_unsigned(n) ==
    IF n >= 0 THEN FormatNat(n)
    ELSE LET r == (10 - (n % 10)) % 10
             q == (n + r) \div 10
         IN  IF q = 0 THEN <<Digits[r + 1]>> ELSE FormatNat(-q) \o <<Digits[r + 1]>>

\* std::format("{}", n) of an integer
FormatInt(n) ==
    IF n >= 0 THEN FormatNat(n)
    ELSE LET r == (10 - (n % 10)) % 10     \* last digit of |n|
             q == (n + r) \div 10          \* n without its last digit, exact
         IN  IF q = 0 THEN <<"-", Digits[r + 1]>>
             ELSE <<"-">> \o FormatNat(-q) \o <<Digits[r + 1]>>

\* std::format("{}", d) of a double: shortest decimal that reads back as d
FormatDouble(d) ==
    (IF d.neg THEN <<"-">> ELSE <<>>) \o d.int
        \o (IF d.frac = <<>> THEN <<>> ELSE <<".">> \o d.frac)

\* config_item::to<std::string>
ToStdString(v) ==
    CASE v.kind = "bool" -> IF v.val THEN <<"t", "r", "u", "e">> ELSE <<"f", "a", "l", "s", "e">>
      [] v.kind = "double" -> FormatDouble(v.val)
      [] OTHER -> FormatInt(v.val)

\* To that converts the stored value instead of checking its kind
To_coerce(v, kind) == [ok |-> TRUE, val |-> v.val]

\* config_item::to<Value>: std::get<Value>(value_)
To(v, kind) ==
    IF v.kind = kind THEN [ok |-> TRUE, val |-> v.val]
    ELSE [ok |-> FALSE, error |-> "bad_variant_access"]

\* std::from_chars of the digits text[i..] into an integer of range lo..hi:
\* the value, or out of range
RECURSIVE Accumulate(_, _, _, _, _, _)
Accumulate(text, i, acc, sgn, lo, hi) ==
    IF i > Len(text) \/ ~IsDigit(text[i]) THEN [ok |-> TRUE, val |-> acc]
    ELSE LET d == DigitVal(text[i])
         IN  IF \/ sgn = 1 /\ acc > (hi - d) \div 10
                \/ sgn = -1 /\ acc < (lo + d + 9) \div 10
             THEN [ok |-> FALSE, error |-> "result_out_of_range"]
             ELSE Accumulate(text, i + 1, acc * 10 + sgn * d, sgn, lo, hi)

\* FromCharsInt that clamps a number out of range to the nearest limit, as
\* strtol does
FromCharsInt_saturate(text, signed, lo, hi) ==
    LET minus == signed /\ Len(text) > 0 /\ text[1] = "-"
        start == IF minus THEN 2 ELSE 1
        r == Accumulate(text, start, 0, IF minus THEN -1 ELSE 1, lo, hi)
    IN  IF DigitRun(text, start) = 0 THEN [ok |-> FALSE, error |-> "invalid_argument"]
        ELSE IF r.ok THEN r
        ELSE [ok |-> TRUE, val |-> IF minus THEN lo ELSE hi]

\* std::from_chars(first, last, integer&): a minus sign only for a signed type
FromCharsInt(text, signed, lo, hi) ==
    LET minus == signed /\ Len(text) > 0 /\ text[1] = "-"
        start == IF minus THEN 2 ELSE 1
    IN  IF DigitRun(text, start) = 0 THEN [ok |-> FALSE, error |-> "invalid_argument"]
        ELSE Accumulate(text, start, 0, IF minus THEN -1 ELSE 1, lo, hi)

RECURSIVE StripLeadingZeros(_)
StripLeadingZeros(ds) ==
    IF Len(ds) > 1 /\ ds[1] = "0" THEN StripLeadingZeros(Tail(ds)) ELSE ds

RECURSIVE StripTrailingZeros(_)
StripTrailingZeros(ds) ==
    IF Len(ds) > 0 /\ ds[Len(ds)] = "0" THEN StripTrailingZeros(SubSeq(ds, 1, Len(ds) - 1)) ELSE ds

\* std::from_chars(first, last, double&) on plain decimal notation
\* (the texts of the model hold no exponent, "inf" or "nan")
FromCharsDouble(text) ==
    LET minus == Len(text) > 0 /\ text[1] = "-"
        start == IF minus THEN 2 ELSE 1
        n == DigitRun(text, start)
        dot == start + n <= Len(text) /\ text[start + n] = "."
        f == IF dot THEN DigitRun(text, start + n + 1) ELSE 0
        int == IF n = 0 THEN <<"0">> ELSE StripLeadingZeros(SubSeq(text, start, start + n - 1))
        frac == StripTrailingZeros(SubSeq(text, start + n + 1, start + n + f))
    IN  IF n = 0 /\ f = 0 THEN [ok |-> FALSE, error |-> "invalid_argument"]
        ELSE [ok |-> TRUE, val |-> Decimal(minus, int, frac)]

\* std::from_chars into the active numeric alternative
FromChars(text, kind) ==
    CASE kind = "uint8" -> FromCharsInt(text, FALSE, 0, UINT8_MAX)
      [] kind = "int" -> FromCharsInt(text, TRUE, INT_MIN, INT_MAX)
      [] kind = "double" -> FromCharsDouble(text)

\* SetText that stores zero when the text holds no number, as atoi does
SetText_zero_on_failure(v, text) ==
    IF v.kind = "bool"
    THEN Variant("bool", text = <<"1">> \/ text = <<"t", "r", "u", "e">>)
    ELSE LET r == FromChars(text, v.kind)
         IN  IF r.ok THEN Variant(v.kind, r.val)
             ELSE IF v.kind = "double" THEN Variant(v.kind, Decimal(FALSE, <<"0">>, <<>>))
             ELSE Variant(v.kind, 0)

\* SetText that takes every boolean text but "0", "false" and "" as true
SetText_bool_nonzero(v, text) ==
    IF v.kind = "bool"
    THEN Variant("bool", text \notin {<<>>, <<"0">>, <<"f", "a", "l", "s", "e">>})
    ELSE LET r == FromChars(text, v.kind)
         IN  IF r.ok THEN Variant(v.kind, r.val) ELSE v

\* config_item::set(std::string_view)
SetText(v, text) ==
    IF v.kind = "bool"
    THEN Variant("bool", text = <<"1">> \/ text = <<"t", "r", "u", "e">>)
    ELSE LET r == FromChars(text, v.kind)
         IN  IF r.ok THEN Variant(v.kind, r.val) ELSE v

\* config_item::set(value): value_ = value
SetValue(v, value) == value

\* overload resolution of config_item::set: a text goes to set(std::string_view)
set(v, a) == IF a.type = "text" THEN SetText(v, a.arg) ELSE SetValue(v, a.arg)

\* ----------------------------------------------------------------- inputs
Alphabet == {"-", "0", "1", "5", ".", "a"}

RECURSIVE TextsOver(_)
TextsOver(n) ==
    IF n = 0 THEN {<<>>}
    ELSE LET shorter == TextsOver(n - 1)
         IN  shorter \cup {Append(t, c) : t \in {u \in shorter : Len(u) = n - 1}, c \in Alphabet}

Words ==
    { <<"t", "r", "u", "e">>, <<"f", "a", "l", "s", "e">>, <<"T", "R", "U", "E">>,
      <<"t", "r", "u", "e", " ">>, <<"y", "e", "s">>, <<"a", "b", "c">>,
      <<"1", "2", "a", "b", "c">>, <<"2", "5", "5">>, <<"2", "5", "6">>, <<"3", "0", "0">>,
      <<"-", "1", "2", "8">>, <<"0", "0", "7">>, <<" ", "1">>, <<"+", "1">>, <<"1", ".", "5", "x">>,
      <<"2", "1", "4", "7", "4", "8", "3", "6", "4", "7">>,
      <<"2", "1", "4", "7", "4", "8", "3", "6", "4", "8">>,
      <<"-", "2", "1", "4", "7", "4", "8", "3", "6", "4", "8">>,
      <<"-", "2", "1", "4", "7", "4", "8", "3", "6", "4", "9">> }

\* the texts given to set(std::string_view)
Texts == TextsOver(MaxText) \cup Words

\* the values given to set(value), one or more of every declared type
TypedValues ==
    { Variant("bool", TRUE), Variant("bool", FALSE), Variant("uint8", 20), Variant("uint8", 255),
      Variant("int", -7), Variant("int", 1024),
      Variant("double", Decimal(FALSE, <<"2">>, <<"5">>)),
      Variant("double", Decimal(TRUE, <<"0">>, <<"0", "0", "1">>)) }

\* the values a configuration item is constructed with
InitValues ==
    {Variant("bool", b) : b \in BOOLEAN}
        \cup {Variant("uint8", n) : n \in {0, 1, 20, 128, 254, UINT8_MAX}}
        \cup {Variant("int", n) : n \in {INT_MIN, -129, -1, 0, 7, 255, 256, 800, 115200, INT_MAX}}
        \cup {Variant("double", d) : d \in { Decimal(FALSE, <<"0">>, <<"3">>),
                                             Decimal(FALSE, <<"0">>, <<"0", "0", "1">>),
                                             Decimal(FALSE, <<"5">>, <<>>),
                                             Decimal(TRUE, <<"2">>, <<"5">>) }}

\* (configuration item, action) pairs a menu option is constructed with
BindArgs == {<<"width", FALSE>>, <<"height", TRUE>>}

\* the arguments given to menu_option::apply: a value or a text
Value(v) == [type |-> "value", arg |-> v]
Text(t) == [type |-> "text", arg |-> t]
ApplyArgs == {Value(Variant("int", 1024)), Text(<<"6", "0", "0">>)}

\* ------------------------------------------------------------------- menu
\* menu_option: key_, cfgitem_ (which item it points to), action_ (TRUE: non-empty)
Option(key, cfgitem, action) == [key_ |-> key, cfgitem_ |-> cfgitem, action_ |-> action]

\* options_.end()
End(m) == [base |-> data[m], off |-> Len(options_[m])]

\* options_.begin() + i
At(m, i) == [base |-> data[m], off |-> i]

\* the stored iterator denotes an element of the current buffer
References(m) ==
    /\ selection_[m].base = data[m]
    /\ capacity[m] > 0
    /\ selection_[m].off < Len(options_[m])

\* the cursor is the end-of-sequence sentinel
Unselected(m) == selection_[m] = End(m)

\* menu_option::key
key(option) == option.key_

\* FindIf that returns the position counted from one
FindIf_off_by_one(opts, k) ==
    LET hits == {i \in 1..Len(opts) : key(opts[i]) = k}
    IN  IF hits = {} THEN Len(opts)
        ELSE CHOOSE i \in hits : \A j \in hits : i <= j

\* FindIf that returns begin() when nothing matches
FindIf_not_found_begin(opts, k) ==
    LET hits == {i \in 1..Len(opts) : key(opts[i]) = k}
    IN  IF hits = {} THEN 0
        ELSE (CHOOSE i \in hits : \A j \in hits : i <= j) - 1

\* std::ranges::find_if(options_, key match): offset of the first match, else size()
FindIf(opts, k) ==
    LET hits == {i \in 1..Len(opts) : key(opts[i]) = k}
    IN  IF hits = {} THEN Len(opts)
        ELSE (CHOOSE i \in hits : \A j \in hits : i <= j) - 1

\* Erase that drops the last element, as pop_back does
Erase_last(opts, off) == SubSeq(opts, 1, Len(opts) - 1)

\* vector::erase(position)
Erase(opts, off) ==
    [i \in 1..(Len(opts) - 1) |-> IF i <= off THEN opts[i] ELSE opts[i + 1]]

\* buffers that are allocated at the moment
Live == {data[m] : m \in Menus} \ {Null}

\* Allocate that may hand the buffer in use back, as growing in place does
Allocate_in_place == Addr

\* addresses a reallocation may return: the old buffer is released only afterwards
Allocate == Addr \ Live

\* capacity after a reallocation: the growth factor is the library's choice
NewCapacity(size) == (size + 1)..(IF size = 0 THEN 1 ELSE 2 * size)

\* the operation before the last one, kept when it was op
Prev(op) == IF last.op = op THEN last ELSE [op |-> "other"]

\* the last operation was a select that returned false
Missed == last.op = "select" /\ ~last.ret

\* menu::add
add(m, k, cfgitem, action) ==
    /\ Len(options_[m]) < MaxLen
    /\ options_' = [options_ EXCEPT ![m] = Append(@, Option(k, cfgitem, action))]
    /\ IF Len(options_[m]) = capacity[m]
       THEN \E c \in NewCapacity(Len(options_[m])), a \in Allocate :
               /\ capacity' = [capacity EXCEPT ![m] = c]
               /\ data' = [data EXCEPT ![m] = a]
               /\ valid' = [valid EXCEPT ![m] = FALSE]
               /\ last' = [op |-> "add", menu |-> m, key |-> k, grew |-> TRUE,
                           before |-> options_[m], missed |-> Missed]
       ELSE /\ UNCHANGED <<capacity, data, valid>>
            /\ last' = [op |-> "add", menu |-> m, key |-> k, grew |-> FALSE,
                        before |-> options_[m], missed |-> Missed]
    /\ UNCHANGED <<selection_, value_>>

\* menu::remove.  The source passes `selection` to erase, which names the
\* accessor and not the cursor; it is read as selection_, the position the
\* accessor dereferences.  @pre: the selection is valid.
remove(m) ==
    /\ valid[m]
    /\ options_' = [options_ EXCEPT ![m] = Erase(@, selection_[m].off)]
    /\ valid' = [valid EXCEPT ![m] = FALSE]
    /\ last' = [op |-> "remove", menu |-> m, prev |-> Prev("select")]
    /\ UNCHANGED <<capacity, data, selection_, value_>>

\* menu::select
select(m, k) ==
    LET found == At(m, FindIf(options_[m], k))
    IN  /\ selection_' = [selection_ EXCEPT ![m] = found]
        /\ valid' = [valid EXCEPT ![m] = (found # End(m))]
        /\ last' = [op |-> "select", menu |-> m, key |-> k, ret |-> (found # End(m)),
                    prev |-> Prev("add")]
        /\ UNCHANGED <<options_, capacity, data, value_>>

\* option_eq that compares every member, as a defaulted operator== does
option_eq_memberwise(lhs, rhs) == lhs = rhs

\* menu_option::operator==
option_eq(lhs, rhs) == key(lhs) = key(rhs)

\* menu::operator== (defaulted): options_ and selection_ member by member
menu_eq(lhs, rhs) ==
    /\ Len(options_[lhs]) = Len(options_[rhs])
    /\ \A i \in 1..Len(options_[lhs]) : option_eq(options_[lhs][i], options_[rhs][i])
    /\ selection_[lhs] = selection_[rhs]

\* menu::selection
selection(m) == options_[m][selection_[m].off + 1]

\* config_item::name of the two items
name(s) ==
    IF s = "width"
    THEN <<"s", "c", "r", "e", "e", "n", " ", "w", "i", "d", "t", "h">>
    ELSE <<"s", "c", "r", "e", "e", "n", " ", "h", "e", "i", "g", "h", "t">>

NameWidth == 20    \* {:20}
ValueWidth == 16   \* {:>16}

\* n spaces
Spaces(n) == [i \in 1..n |-> " "]

\* std::format("{:20}", text): left-aligned, filled up to the width, never cut
PadRight(text, width) ==
    IF Len(text) >= width THEN text ELSE text \o Spaces(width - Len(text))

\* std::format("{:>16}", text): right-aligned, filled up to the width, never cut
PadLeft(text, width) ==
    IF Len(text) >= width THEN text ELSE Spaces(width - Len(text)) \o text

LowerCase == <<"a", "b", "c", "d", "e", "f", "g", "h", "i", "j", "k", "l", "m",
               "n", "o", "p", "q", "r", "s", "t", "u", "v", "w", "x", "y", "z">>
UpperCase == <<"A", "B", "C", "D", "E", "F", "G", "H", "I", "J", "K", "L", "M",
               "N", "O", "P", "Q", "R", "S", "T", "U", "V", "W", "X", "Y", "Z">>

\* toupper that leaves the character as it is
toupper_identity(c) == c

\* std::toupper
toupper(c) ==
    IF \E i \in 1..26 : LowerCase[i] = c
    THEN UpperCase[CHOOSE i \in 1..26 : LowerCase[i] = c]
    ELSE c

\* menu_option::to<std::string>: std::format("{:20} {:>16}\n", name, value)
menu_option_to_string(option, items) ==
    PadRight(name(option.cfgitem_), NameWidth) \o <<" ">>
        \o PadLeft(ToStdString(items[option.cfgitem_]), ValueWidth) \o <<"\n">>

\* menu::to<std::string>: for every option, std::format("{:c} | {}", toupper(key), option)
RECURSIVE menu_to_string(_, _)
menu_to_string(opts, items) ==
    IF opts = <<>> THEN <<>>
    ELSE <<toupper(key(Head(opts))), " ", "|", " ">> \o menu_option_to_string(Head(opts), items)
             \o menu_to_string(Tail(opts), items)

\* menu.to<std::string>()
to_string(m) ==
    /\ last' = [op |-> "to_string", menu |-> m, result |-> menu_to_string(options_[m], value_)]
    /\ UNCHANGED <<menuvars, value_>>

\* menu_option_apply that calls the action before it sets the item
menu_option_apply_action_first(option, items, arg) ==
    LET committed == [items EXCEPT ![option.cfgitem_] = set(@, arg)]
    IN  IF ~option.action_
        THEN [items |-> committed, calls |-> 0, seen |-> <<>>]
        ELSE [items |-> committed, calls |-> 1, seen |-> <<items[option.cfgitem_]>>]

\* menu_option::apply: the items afterwards, the number of calls of the action
\* and the value of the option's item each call observed
menu_option_apply(option, items, arg) ==
    LET committed == [items EXCEPT ![option.cfgitem_] = set(@, arg)]
    IN  IF ~option.action_
        THEN [items |-> committed, calls |-> 0, seen |-> <<>>]
        ELSE [items |-> committed, calls |-> 1, seen |-> <<committed[option.cfgitem_]>>]

\* selection().apply(value).  @pre of selection(): the selection is valid.
apply(m, arg) ==
    /\ valid[m]
    /\ LET r == menu_option_apply(selection(m), value_, arg)
       IN  /\ value_' = r.items
           /\ last' = [op |-> "apply", menu |-> m, option |-> selection(m), arg |-> arg,
                       calls |-> r.calls, seen |-> r.seen]
    /\ UNCHANGED menuvars

\* cfgitem.set(text)
set_text(s, text) ==
    /\ value_' = [value_ EXCEPT ![s] = SetText(@, text)]
    /\ last' = [op |-> "set_text", item |-> s, text |-> text, from |-> value_[s]]
    /\ UNCHANGED menuvars

\* cfgitem.set(value)
set_value(s, value) ==
    /\ value_' = [value_ EXCEPT ![s] = SetValue(@, value)]
    /\ last' = [op |-> "set_value", item |-> s, value |-> value, from |-> value_[s]]
    /\ UNCHANGED menuvars

\* config::loadxml for an item the file holds no value of:
\* items.set(getValue(tagname, items.to<std::string>()))
loadxml(s) ==
    /\ value_' = [value_ EXCEPT ![s] = SetText(@, ToStdString(@))]
    /\ last' = [op |-> "loadxml", item |-> s, from |-> value_[s]]
    /\ UNCHANGED menuvars

Defaults == [s \in Settings |-> IF s = "width" THEN Variant("int", 800) ELSE Variant("int", 600)]

Init ==
    /\ options_ = [m \in Menus |-> <<>>]
    /\ capacity = [m \in Menus |-> 0]
    /\ data = [m \in Menus |-> Null]
    /\ selection_ = [m \in Menus |-> [base |-> Null, off |-> 0]]
    /\ valid = [m \in Menus |-> FALSE]
    /\ value_ = Defaults
    /\ last = [op |-> "init"]

\* one menu over the two items
Next ==
    \/ \E k \in Keys, b \in BindArgs : add(1, k, b[1], b[2])
    \/ remove(1)
    \/ \E k \in SelectKeys : select(1, k)
    \/ \E arg \in ApplyArgs : apply(1, arg)
    \/ to_string(1)

Spec == Init /\ [][Next]_vars

\* two menus, compared with operator==
NextEq ==
    \/ \E m \in Menus, k \in Keys : add(m, k, "width", FALSE)
    \/ \E m \in Menus, k \in SelectKeys : select(m, k)

SpecEq == Init /\ [][NextEq]_vars

\* one configuration item, constructed with any value
InitSetting ==
    /\ options_ = [m \in Menus |-> <<>>]
    /\ capacity = [m \in Menus |-> 0]
    /\ data = [m \in Menus |-> Null]
    /\ selection_ = [m \in Menus |-> [base |-> Null, off |-> 0]]
    /\ valid = [m \in Menus |-> FALSE]
    /\ value_ \in [{"cfgitem"} -> InitValues]
    /\ last = [op |-> "init"]

NextSetting ==
    \/ \E text \in Texts : set_text("cfgitem", text)
    \/ \E value \in TypedValues : set_value("cfgitem", value)
    \/ loadxml("cfgitem")

SpecSetting == InitSetting /\ [][NextSetting]_vars

\* ----------------------------------------------------------------- claims
\* positions of the options of menu m whose key is k
Holding(m, k) == {i \in 1..Len(options_[m]) : key(options_[m][i]) = k}

\* C1: when select(k) was called on a menu that holds key k exactly once, it
\* returned true, the cursor references an option and selection().key() is k.
C1_SelectFindsKey ==
    (last.op = "select" /\ Cardinality(Holding(1, last.key)) = 1)
        => /\ last.ret
           /\ References(1)
           /\ key(selection(1)) = last.key

\* a select of "w" that had to pass over another option, on a full menu
C1_Witness ==
    /\ last.op = "select" /\ last.key = "w" /\ last.ret
    /\ Len(options_[1]) = MaxLen
    /\ Holding(1, "w") = {2}

\* C2: a select(k) on a menu that holds no option of key k returns false,
\* leaves the cursor at the end-of-sequence sentinel, whatever it referenced
\* before, and leaves the options as they were.
C2_SelectMissingKey ==
    [][(last'.op = "select" /\ Holding(1, last'.key) = {})
          => /\ ~last'.ret
             /\ Unselected(1)'
             /\ ~References(1)'
             /\ options_' = options_]_vars

\* a failed select on a menu with options, right after an add
C2_Witness ==
    /\ last.op = "select" /\ ~last.ret /\ last.prev.op = "add"
    /\ Len(options_[1]) >= 2
    /\ Unselected(1)

C4_EqualityIgnoresCursor ==
    options_[1] = options_[2] => menu_eq(1, 2)

\* C5: apply(value) on the selected option commits the value to the option's
\* configuration item and to nothing else, then calls the action once if there
\* is one and never otherwise; the action observes the committed value.
C5_ApplyCommitsThenCalls ==
    [][last'.op = "apply"
          => LET option == selection(1)
                 item == option.cfgitem_
             IN  /\ last'.option = option
                 /\ value_'[item] = set(value_[item], last'.arg)
                 /\ last'.arg.type = "value" => value_'[item] = last'.arg.arg
                 /\ \A other \in Settings \ {item} : value_'[other] = value_[other]
                 /\ UNCHANGED menuvars
                 /\ last'.calls = (IF option.action_ THEN 1 ELSE 0)
                 /\ option.action_ => last'.seen = <<value_'[item]>>
                 /\ ~option.action_ => last'.seen = <<>>]_vars

\* an apply of 1024 to the option with an action, whose item held 600
C5_Witness ==
    /\ last.op = "apply" /\ last.option.action_
    /\ last.arg = Value(Variant("int", 1024))
    /\ last.calls = 1
    /\ last.seen = <<Variant("int", 1024)>>
    /\ value_ = [Defaults EXCEPT !["height"] = Variant("int", 1024)]

Item == value_["cfgitem"]

T_true == <<"t", "r", "u", "e">>
T_abc == <<"a", "b", "c">>

\* text starts with a number of the kind: digits, after a minus sign for the
\* signed kinds, around a decimal point for a double
StartsWithNumber(text, kind) ==
    LET digit(i) == i <= Len(text) /\ text[i] \in {"0", "1", "2", "3", "4", "5", "6", "7", "8", "9"}
        is(i, c) == i <= Len(text) /\ text[i] = c
    IN  CASE kind = "uint8" -> digit(1)
          [] kind = "int" -> digit(1) \/ (is(1, "-") /\ digit(2))
          [] kind = "double" -> \/ digit(1)
                                \/ is(1, ".") /\ digit(2)
                                \/ is(1, "-") /\ (digit(2) \/ (is(2, ".") /\ digit(3)))

\* C7: set(text) on an item whose active kind is numeric, with a text that does
\* not start with a number of that kind, leaves the kind and the value as they
\* were.
C7_MalformedTextIgnored ==
    ( /\ last.op = "set_text"
      /\ last.from.kind \in {"uint8", "int", "double"}
      /\ ~StartsWithNumber(last.text, last.from.kind) )
        => Item = last.from

\* set("abc") on an int item holding 800
C7_Witness ==
    /\ last.op = "set_text" /\ last.text = T_abc
    /\ last.from = Variant("int", 800)
    /\ Item = Variant("int", 800)

\* C8: set(text) on an item whose active kind is boolean stores true when text
\* is exactly "1" or exactly "true" and false for every other text, whatever
\* the item held; the kind stays boolean.
C8_BooleanParsing ==
    (last.op = "set_text" /\ last.from.kind = "bool")
        => /\ Item.kind = "bool"
           /\ Item.val = (last.text \in {<<"1">>, T_true})

\* set("TRUE") on a boolean item holding true stores false
C8_Witness ==
    /\ last.op = "set_text" /\ last.text = <<"T", "R", "U", "E">>
    /\ last.from = Variant("bool", TRUE)
    /\ Item = Variant("bool", FALSE)

\* C9: set(to<std::string>()) on an item whose active kind is boolean, uint8 or
\* int leaves the item with the kind and the value it had.
C9_TextRoundTrip ==
    (last.op = "loadxml" /\ last.from.kind \in {"bool", "uint8", "int"})
        => Item = last.from

\* the round trip of the least int
C9_Witness ==
    /\ last.op = "loadxml"
    /\ last.from = Variant("int", INT_MIN)
    /\ Item = Variant("int", INT_MIN)

\* C10: to<Kind>() returns the stored value when Kind is the active kind and
\* fails for every other kind, also right after set(value) made the kind of
\* value the active one.
C10_TypedRead ==
    /\ \A kind \in Kinds :
          IF kind = Item.kind
          THEN To(Item, kind) = [ok |-> TRUE, val |-> Item.val]
          ELSE ~To(Item, kind).ok
    /\ last.op = "set_value"
          => /\ To(Item, last.value.kind) = [ok |-> TRUE, val |-> last.value.val]
             /\ \A kind \in Kinds \ {last.value.kind} : ~To(Item, kind).ok

\* an int item set to a double value: to<int>() fails, to<double>() returns it
C10_Witness ==
    /\ last.op = "set_value"
    /\ last.from.kind = "int"
    /\ last.value.kind = "double"
    /\ ~To(Item, "int").ok
    /\ To(Item, "double").ok

\* the text whose characters are cs shifted to the right end of n columns
RightIn(cs, n) == [i \in 1..n |-> IF i <= n - Len(cs) THEN " " ELSE cs[i - (n - Len(cs))]]

W_line ==
    <<"W", " ", "|", " ", "s", "c", "r", "e", "e", "n", " ", "w", "i", "d", "t", "h">>
        \o Spaces(8) \o <<" ">> \o RightIn(<<"1", "0", "2", "4">>, 16) \o <<"\n">>

H_line ==
    <<"H", " ", "|", " ", "s", "c", "r", "e", "e", "n", " ", "h", "e", "i", "g", "h", "t">>
        \o Spaces(7) \o <<" ">> \o RightIn(<<"6", "0", "0">>, 16) \o <<"\n">>

\* width of one entry when name and value fit their columns: "K | ", 20, " ", 16, "\n"
EntryWidth == 4 + NameWidth + 1 + ValueWidth + 1

\* C11: the text of a menu is one entry per option in insertion order: the key
\* in upper case, " | ", the name of the option's item from column 5 on, its
\* current value flush right in the 16 columns before the line end.  For the
\* options 'w' -> width and 'h' -> height with width set to 1024 the text is
\* the W line with 1024 followed by the H line with 600.
C11_Render ==
    last.op = "to_string"
        => LET out == last.result
               opts == options_[1]
               entry(i) == SubSeq(out, (i - 1) * EntryWidth + 1, i * EntryWidth)
           IN  /\ Len(out) = EntryWidth * Len(opts)
               /\ \A i \in 1..Len(opts) :
                     LET e == entry(i)
                         n == name(opts[i].cfgitem_)
                         v == ToStdString(value_[opts[i].cfgitem_])
                     IN  /\ e[1] = toupper(opts[i].key_)
                         /\ e[1] \in {"W", "H"}
                         /\ SubSeq(e, 2, 4) = <<" ", "|", " ">>
                         /\ SubSeq(e, 5, 4 + Len(n)) = n
                         /\ \A j \in (5 + Len(n))..(EntryWidth - 1 - Len(v)) : e[j] = " "
                         /\ SubSeq(e, EntryWidth - Len(v), EntryWidth - 1) = v
                         /\ e[EntryWidth] = "\n"
               /\ ( /\ Len(opts) = 2
                    /\ opts[1].key_ = "w" /\ opts[1].cfgitem_ = "width"
                    /\ opts[2].key_ = "h" /\ opts[2].cfgitem_ = "height"
                    /\ value_["width"] = Variant("int", 1024)
                    /\ value_["height"] = Variant("int", 600) )
                      => out = W_line \o H_line

\* the text of the menu 'w' -> width, 'h' -> height after apply(1024) on 'w'
C11_Witness ==
    /\ last.op = "to_string"
    /\ options_[1] = <<Option("w", "width", FALSE), Option("h", "height", TRUE)>>
    /\ value_ = [Defaults EXCEPT !["width"] = Variant("int", 1024)]
    /\ last.result = W_line \o H_line

\* C12: two options of a menu compare equal exactly when their keys are equal,
\* whatever items and actions they hold: equal for one key with different items
\* or actions, unequal for different keys on one item.
C12_OptionEquality ==
    \A i, j \in 1..Len(options_[1]) :
        LET lhs == options_[1][i]
            rhs == options_[1][j]
        IN  /\ option_eq(lhs, rhs) <=> (lhs.key_ = rhs.key_)
            /\ (lhs.key_ = rhs.key_ /\ lhs.cfgitem_ # rhs.cfgitem_) => option_eq(lhs, rhs)
            /\ (lhs.key_ = rhs.key_ /\ lhs.action_ # rhs.action_) => option_eq(lhs, rhs)
            /\ (lhs.key_ # rhs.key_ /\ lhs.cfgitem_ = rhs.cfgitem_) => ~option_eq(lhs, rhs)

\* a menu with key 'w' on both items and key 'h' on the item of the first
C12_Witness ==
    /\ options_[1] = <<Option("w", "width", FALSE), Option("w", "height", TRUE),
                       Option("h", "width", FALSE)>>
    /\ option_eq(options_[1][1], options_[1][2])
    /\ ~option_eq(options_[1][1], options_[1][3])

Magnitude(text, kind) ==
    LET start == IF kind = "int" /\ text[1] = "-" THEN 2 ELSE 1
    IN  StripLeadingZeros(SubSeq(text, start, start + DigitRun(text, start) - 1))

\* the integer at the start of text as std::format writes it
PrefixText(text, kind) ==
    LET m == Magnitude(text, kind)
    IN  IF kind = "int" /\ text[1] = "-" /\ m # <<"0">> THEN <<"-">> \o m ELSE m

\* a <= b for two numbers written in digits without leading zeros
RECURSIVE DigitsLeq(_, _)
DigitsLeq(a, b) ==
    IF Len(a) # Len(b) THEN Len(a) < Len(b)
    ELSE IF a = <<>> THEN TRUE
    ELSE IF a[1] # b[1] THEN DigitVal(a[1]) < DigitVal(b[1])
    ELSE DigitsLeq(Tail(a), Tail(b))

\* the integer at the start of text is a value of the kind: 0..255 for uint8,
\* -2147483648..2147483647 for int
Representable(text, kind) ==
    DigitsLeq(Magnitude(text, kind),
              CASE kind = "uint8" -> FormatInt(UINT8_MAX)
                [] kind = "int" /\ text[1] = "-" -> Tail(FormatInt(INT_MIN))
                [] OTHER -> FormatInt(INT_MAX))

\* the last operation was set(text) on an item whose active kind is uint8 or
\* int, with a text that starts with an integer of that kind
IntegerTextSet ==
    /\ last.op = "set_text"
    /\ last.from.kind \in {"uint8", "int"}
    /\ StartsWithNumber(last.text, last.from.kind)

\* C14 as stated: set(text) on an item whose active kind is uint8 or int, with
\* a text that starts with an integer, stores that integer whatever its
\* magnitude, ignores the rest of the text and keeps the kind.
C14_Original ==
    IntegerTextSet
        => /\ Item.kind = last.from.kind
           /\ FormatInt(Item.val) = PrefixText(last.text, last.from.kind)

\* C14: set(text) on an item whose active kind is uint8 or int, with a text
\* that starts with an integer, keeps the kind; when the integer is a value of
\* the kind it is stored and the rest of the text is ignored; when it is out of
\* the range of the kind the item is left as it was.
C14_PrefixStoredInRange ==
    IntegerTextSet
        => /\ Item.kind = last.from.kind
           /\ Representable(last.text, last.from.kind)
                => FormatInt(Item.val) = PrefixText(last.text, last.from.kind)
           /\ ~Representable(last.text, last.from.kind) => Item = last.from

\* set("300") on a uint8 item holding 20
C14_Witness ==
    /\ last.op = "set_text" /\ last.text = <<"3", "0", "0">>
    /\ last.from = Variant("uint8", 20)
    /\ Item = Variant("uint8", 20)
====
